---- MODULE Spec2Model ----
(***************************************************************************)
(* A model of the generation pipeline of the "My" app generator:           *)
(*   - the SQLAlchemy record store and its status operations               *)
(*     (backend/database/crud.py, backend/database/models.py),             *)
(*   - the Celery tasks generate_app and generate_app_deep_mode            *)
(*     (backend/tasks/generation_tasks.py),                                *)
(*   - the DeepMode service and its server-side caller                     *)
(*     (backend/services/deep_mode.py, backend/main.py),                   *)
(*   - the text normalisation _optimize_file_content.                      *)
(* Python's None is the empty sequence <<>>, a present value v is <<v>>.   *)
(***************************************************************************)
EXTENDS Integers, Sequences, FiniteSets, TLC

\* ------------------------------------------------------------------ bounds
\* The clock runs from 0 to MaxTime ticks.
MaxTime == 2
\* Calls of the crud status operations made by a caller of the record store.
MaxApiCalls == 2
\* Deliveries of the task message by the broker (the first one and the
\* redeliveries after a lost worker).
MaxDeliveries == 2

\* Clock ticks per second (timestamps are finer than the whole seconds that
\* actual_time / total_time keep).
TicksPerSecond == 2

\* ------------------------------------------------------------ Python values
None == <<>>
Some(v) == <<v>>
\* Truthiness of an Optional[str]: None and "" are both falsy.
Truthy(o) == o # None /\ o[1] # ""

\* ------------------------------------------------- models.py: ProjectStatus
PENDING == "pending"
ANALYZING == "analyzing"
PLANNING == "planning"
GENERATING == "generating"
BUILDING == "building"
TESTING == "testing"
COMPLETED == "completed"
FAILED == "failed"
CANCELLED == "cancelled"

ProjectStatus ==
  {PENDING, ANALYZING, PLANNING, GENERATING, BUILDING, TESTING,
   COMPLETED, FAILED, CANCELLED}

\* The rows that exist in the projects table; task and caller arguments
\* range over ProjectArgs, which also holds an id with no row.
ProjectIds == {1}
ProjectArgs == {1, 2}

\* models.py Project: the columns the pipeline reads and writes, with the
\* column defaults.
Project ==
  [status |-> PENDING, progress |-> 0, current_phase |-> None,
   error_message |-> None, output_path |-> None, actual_time |-> None,
   file_count |-> 0, line_count |-> 0, started_at |-> None,
   completed_at |-> None]

\* models.py Generation, as create_generation builds it; an empty JSON
\* dict (the default of output_data and metrics) is None here.
Generation(project_id, generation_type) ==
  [project_id |-> project_id, generation_type |-> generation_type,
   status |-> PENDING, progress |-> 0, error_message |-> None,
   output_data |-> None, metrics |-> None, total_time |-> None,
   started_at |-> None, completed_at |-> None]

\* ------------------------------------------------------------------- state
VARIABLES
  now,          \* datetime.utcnow(), in ticks
  projects,     \* the projects table: id -> Project
  generations,  \* the generations table: a row's id is its index
  task,         \* the Celery task the worker is running, and its position
  deliveries,   \* deliveries made so far
  apiCalls,     \* outside calls made so far
  lastCall,     \* the last crud status call: its arguments and its outcome
  dm,           \* main.py deep_mode: the one DeepMode object of the server
  runs,         \* the _generate_deep_mode_background coroutines
  loop,         \* the coroutine the event loop is running (0: none)
  store,        \* main.py db: Database.projects
  events,       \* what each run's progress callback has been called with
  optIn,        \* a content handed to _optimize_file_content
  optRuns,      \* the results of applying it, each to the one before
  scoreStats,   \* a generation_stats handed to _calculate_quality_score
  scoreOut,     \* the score it returned
  mm,           \* a ModelManager and one generate_code call on it
  fileIn,       \* the arguments of one _generate_single_file call
  fileOut,      \* what the call returned and did
  asmIn,        \* a set of files handed to validation, optimization, assembly
  asmOut        \* the project _assemble_project returned for it

dbvars == <<now, projects, generations, task, deliveries, apiCalls, lastCall>>
deepvars == <<dm, runs, loop, store, events>>
optvars == <<optIn, optRuns>>
scorevars == <<scoreStats, scoreOut>>
asmvars == <<asmIn, asmOut>>
filevars == <<fileIn, fileOut>>
mmvars == <<mm>>
purevars == <<optvars, scorevars, asmvars, filevars, mmvars>>
vars == <<dbvars, deepvars, purevars>>

\* ------------------------------------------------------------------ crud.py
get_project(db, project_id) ==
  IF project_id \in DOMAIN db THEN Some(db[project_id]) ELSE None

get_generation(gens, generation_id) ==
  IF generation_id \in DOMAIN gens THEN Some(gens[generation_id]) ELSE None

\* int((completed_at - started_at).total_seconds())
total_seconds(completed_at, started_at) ==
  (completed_at - started_at) \div TicksPerSecond

\* The timestamps branch shared by both status operations (crud.py 160-166,
\* 264-269); timeField is actual_time or total_time.
SetTimestamps(r, status, t, timeField) ==
  IF status = GENERATING /\ r.started_at = None
  THEN [r EXCEPT !.started_at = Some(t)]
  ELSE IF status \in {COMPLETED, FAILED}
  THEN LET c == [r EXCEPT !.completed_at = Some(t)]
       IN IF c.started_at # None
          THEN [c EXCEPT ![timeField] = Some(total_seconds(t, c.started_at[1]))]
          ELSE c
  ELSE r

\* The row update_project_status leaves for row p.
ProjectAfterStatus(p, status, progress, current_phase, error_message, t) ==
  LET p1 == [p EXCEPT !.status = status]
      p2 == IF progress # None THEN [p1 EXCEPT !.progress = progress[1]] ELSE p1
      p3 == IF Truthy(current_phase)
            THEN [p2 EXCEPT !.current_phase = current_phase] ELSE p2
      p4 == IF Truthy(error_message)
            THEN [p3 EXCEPT !.error_message = error_message] ELSE p3
  IN SetTimestamps(p4, status, t, "actual_time")

\* update_project_status: the table after the call. A missing row changes
\* nothing and the call returns None.
update_project_status(db, project_id, status, progress, current_phase, error_message, t) ==
  IF project_id \in DOMAIN db
  THEN [db EXCEPT ![project_id] =
          ProjectAfterStatus(db[project_id], status, progress, current_phase,
                             error_message, t)]
  ELSE db

GenerationAfterStatus(g, status, progress, error_message, t) ==
  LET g1 == [g EXCEPT !.status = status]
      g2 == IF progress # None THEN [g1 EXCEPT !.progress = progress[1]] ELSE g1
      g3 == IF Truthy(error_message)
            THEN [g2 EXCEPT !.error_message = error_message] ELSE g2
  IN SetTimestamps(g3, status, t, "total_time")

update_generation_status(gens, generation_id, status, progress, error_message, t) ==
  IF generation_id \in DOMAIN gens
  THEN [gens EXCEPT ![generation_id] =
          GenerationAfterStatus(gens[generation_id], status, progress,
                                error_message, t)]
  ELSE gens

update_project_results(db, project_id, output_path, file_count, line_count) ==
  IF project_id \in DOMAIN db
  THEN LET p  == db[project_id]
           p1 == IF Truthy(output_path)
                 THEN [p EXCEPT !.output_path = output_path] ELSE p
           p2 == IF file_count # None
                 THEN [p1 EXCEPT !.file_count = file_count[1]] ELSE p1
           p3 == IF line_count # None
                 THEN [p2 EXCEPT !.line_count = line_count[1]] ELSE p2
       IN [db EXCEPT ![project_id] = p3]
  ELSE db

update_generation_results(gens, generation_id, output_data, metrics) ==
  IF generation_id \in DOMAIN gens
  THEN LET g  == gens[generation_id]
           g1 == IF output_data # None
                 THEN [g EXCEPT !.output_data = output_data] ELSE g
           g2 == IF metrics # None THEN [g1 EXCEPT !.metrics = metrics] ELSE g1
       IN [gens EXCEPT ![generation_id] = g2]
  ELSE gens

create_generation(gens, project_id, generation_type) ==
  Append(gens, Generation(project_id, generation_type))

\* ------------------------------------------------- the record of a call
\* What the caller of a status operation observes: the status the row had
\* (None for a missing row), whether a row came back (the operations return
\* None for a missing row), and the exception raised ("" for none: neither
\* operation has a raise statement).
NoCall ==
  [fn |-> "none", caller |-> "none", id |-> 0, status |-> PENDING,
   progress |-> None, was |-> None, returned |-> FALSE, raised |-> ""]

ProjectCall(caller, db, project_id, status, progress) ==
  [fn |-> "update_project_status", caller |-> caller, id |-> project_id,
   status |-> status, progress |-> progress,
   was |-> IF project_id \in DOMAIN db THEN Some(db[project_id].status) ELSE None,
   returned |-> get_project(db, project_id) # None,
   raised |-> ""]

GenerationCall(caller, gens, generation_id, status, progress) ==
  [fn |-> "update_generation_status", caller |-> caller, id |-> generation_id,
   status |-> status, progress |-> progress,
   was |-> IF generation_id \in DOMAIN gens
           THEN Some(gens[generation_id].status) ELSE None,
   returned |-> get_generation(gens, generation_id) # None,
   raised |-> ""]

\* ------------------------------------------------------ inputs of the model
\* str(e) of the exceptions a step can raise: Celery's SoftTimeLimitExceeded
\* (celery_app.py task_soft_time_limit) prints as "", most others do not.
ErrTexts == {"", "boom"}
\* Arguments of outside callers.
ApiProgress == {None, Some(30), Some(60)}
\* What the code generators hand back.
FileCounts == {2}
OutputPaths == {None, Some("./generated_projects/deep")}

\* --------------------------------------------------------------- the worker
IdleTask ==
  [kind |-> "none", pc |-> "idle", project_id |-> 0, found |-> FALSE,
   generation_id |-> 0, file_count |-> 0, line_count |-> 0,
   output_path |-> None, err |-> "", ret |-> "none", at_delivery |-> None]

\* What a delivery for an already completed project finds: the row, kept to
\* compare with what the run leaves (None for any other delivery).
CompletedAtDelivery(project_id) ==
  IF project_id \in DOMAIN projects /\ projects[project_id].status = COMPLETED
  THEN Some(projects[project_id]) ELSE None

\* The broker hands the task message to the worker.
Deliver(kind, project_id) ==
  /\ task.pc = "idle"
  /\ deliveries = 0
  /\ deliveries' = 1
  /\ task' = [IdleTask EXCEPT
                !.kind = kind, !.project_id = project_id,
                !.pc = IF kind = "generate_app" THEN "ga_analyzing" ELSE "dm_import",
                !.at_delivery = CompletedAtDelivery(project_id)]
  /\ UNCHANGED <<deepvars, purevars, now, projects, generations, apiCalls, lastCall>>

\* task_acks_late (celery_app.py 54): the message is acknowledged only after
\* the task has returned or raised.
Ack ==
  /\ task.pc = "done"
  /\ task' = [task EXCEPT !.pc = "acked"]
  /\ UNCHANGED <<deepvars, purevars, now, projects, generations, deliveries, apiCalls, lastCall>>

\* task_reject_on_worker_lost (celery_app.py 55): when the worker process is
\* lost before the acknowledgement, the message goes back to the queue and
\* the task runs again from its first line, on the rows the lost run left.
WorkerLost ==
  /\ task.pc \notin {"idle", "acked"}
  /\ deliveries < MaxDeliveries
  /\ deliveries' = deliveries + 1
  /\ task' = [IdleTask EXCEPT
                !.kind = task.kind, !.project_id = task.project_id,
                !.pc = IF task.kind = "generate_app" THEN "ga_analyzing" ELSE "dm_import",
                !.at_delivery = CompletedAtDelivery(task.project_id)]
  /\ UNCHANGED <<deepvars, purevars, now, projects, generations, apiCalls, lastCall>>

\* An exception inside the try block: control goes to the except handler.
Raise(handler) ==
  /\ \E e \in ErrTexts : task' = [task EXCEPT !.pc = handler, !.err = e]
  /\ UNCHANGED <<deepvars, purevars, now, projects, generations, deliveries, apiCalls, lastCall>>

\* A status write made by the running task.
TaskProjectStatus(status, progress, current_phase, error_message, next) ==
  /\ projects' = update_project_status(projects, task.project_id, status, progress,
                                       current_phase, error_message, now)
  /\ lastCall' = ProjectCall(task.kind, projects, task.project_id, status, progress)
  /\ task' = next
  /\ UNCHANGED <<deepvars, purevars, now, generations, deliveries, apiCalls>>

TaskGenerationStatus(status, next) ==
  /\ generations' = update_generation_status(generations, task.generation_id, status,
                                             None, None, now)
  /\ lastCall' = GenerationCall(task.kind, generations, task.generation_id, status, None)
  /\ task' = next
  /\ UNCHANGED <<deepvars, purevars, now, projects, deliveries, apiCalls>>

\* A step of the task that touches no row.
TaskLocal(t) ==
  /\ task' = t
  /\ UNCHANGED <<deepvars, purevars, now, projects, generations, deliveries, apiCalls, lastCall>>

Goto(pc) == [task EXCEPT !.pc = pc]
Return(ret) == [task EXCEPT !.pc = "done", !.ret = ret]

\* ------------------------------------------ generation_tasks.py generate_app
GA_Analyzing ==
  /\ task.pc = "ga_analyzing"
  /\ \/ TaskProjectStatus(ANALYZING, Some(10), Some("Analyzing requirements"), None,
                          Goto("ga_get_project"))
     \/ Raise("ga_except")

GA_GetProject ==
  /\ task.pc = "ga_get_project"
  /\ \/ /\ get_project(projects, task.project_id) # None
        /\ TaskLocal([task EXCEPT !.pc = "ga_create_generation", !.found = TRUE])
     \/ /\ get_project(projects, task.project_id) = None
        /\ TaskLocal([task EXCEPT !.pc = "ga_except", !.err = "Project not found"])

GA_CreateGeneration ==
  /\ task.pc = "ga_create_generation"
  /\ \/ /\ generations' = create_generation(generations, task.project_id, "initial")
        /\ task' = [task EXCEPT !.pc = "ga_planning",
                                !.generation_id = Len(generations) + 1]
        /\ UNCHANGED <<deepvars, purevars, now, projects, deliveries, apiCalls, lastCall>>
     \/ Raise("ga_except")

GA_Planning ==
  /\ task.pc = "ga_planning"
  /\ \/ TaskProjectStatus(PLANNING, Some(20), Some("Planning architecture"), None,
                          Goto("ga_create_app_plan"))
     \/ Raise("ga_except")

\* asyncio.run(orchestrator.create_app_plan({...})): the orchestrator is an
\* outside collaborator, so the call either returns a plan or raises. (As
\* written the call passes one dict to a method that wants prompt, app_type
\* and platforms, so with the orchestrator of this repository it raises.)
GA_CreateAppPlan ==
  /\ task.pc = "ga_create_app_plan"
  /\ \/ TaskLocal([task EXCEPT !.pc = "ga_generating"])
     \/ Raise("ga_except")

GA_Generating ==
  /\ task.pc = "ga_generating"
  /\ \/ TaskProjectStatus(GENERATING, Some(40), Some("Generating code"), None,
                          Goto("ga_generate_full_app"))
     \/ Raise("ga_except")

GA_GenerateFullApp ==
  /\ task.pc = "ga_generate_full_app"
  /\ \/ TaskLocal([task EXCEPT !.pc = "ga_building"])
     \/ Raise("ga_except")

GA_Building ==
  /\ task.pc = "ga_building"
  /\ \/ TaskProjectStatus(BUILDING, Some(70), Some("Building project"), None,
                          Goto("ga_save_files"))
     \/ Raise("ga_except")

\* Lines 111-129: the files are written and counted.
GA_SaveFiles ==
  /\ task.pc = "ga_save_files"
  /\ \/ \E n \in FileCounts :
          TaskLocal([task EXCEPT !.pc = "ga_testing", !.file_count = n,
                                 !.line_count = 3 * n,
                                 !.output_path = Some("./generated_projects/project")])
     \/ Raise("ga_except")

GA_Testing ==
  /\ task.pc = "ga_testing"
  /\ \/ TaskProjectStatus(TESTING, Some(90), Some("Running tests"), None,
                          Goto("ga_completed"))
     \/ Raise("ga_except")

GA_Completed ==
  /\ task.pc = "ga_completed"
  /\ \/ TaskProjectStatus(COMPLETED, Some(100), Some("Completed"), None,
                          Goto("ga_project_results"))
     \/ Raise("ga_except")

GA_ProjectResults ==
  /\ task.pc = "ga_project_results"
  /\ \/ /\ projects' = update_project_results(projects, task.project_id, task.output_path,
                                              Some(task.file_count), Some(task.line_count))
        /\ task' = [task EXCEPT !.pc = "ga_generation_completed"]
        /\ UNCHANGED <<deepvars, purevars, now, generations, deliveries, apiCalls, lastCall>>
     \/ Raise("ga_except")

GA_GenerationCompleted ==
  /\ task.pc = "ga_generation_completed"
  /\ \/ TaskGenerationStatus(COMPLETED, Goto("ga_generation_results"))
     \/ Raise("ga_except")

GA_GenerationResults ==
  /\ task.pc = "ga_generation_results"
  /\ \/ /\ generations' =
             update_generation_results(generations, task.generation_id,
               Some([file_count |-> task.file_count, line_count |-> task.line_count]),
               Some([quality_score |-> 85, completion_rate |-> 100]))
        /\ task' = Return("success")
        /\ UNCHANGED <<deepvars, purevars, now, projects, deliveries, apiCalls, lastCall>>
     \/ Raise("ga_except")

\* The except handler (lines 173-185); its own write is taken to succeed.
GA_Except ==
  /\ task.pc = "ga_except"
  /\ TaskProjectStatus(FAILED, None, None, Some(task.err), Return("failed"))

\* -------------------------------- generation_tasks.py generate_app_deep_mode
\* Line 200, before the try block: from services.deep_mode import
\* DeepModeGenerator. services/deep_mode.py defines DeepMode only, so with
\* the module of this repository the import raises; the exception leaves the
\* task with no handler run. Where a deployment supplies the class the task
\* goes on.
DM_Import ==
  /\ task.pc = "dm_import"
  /\ \/ TaskLocal(Goto("dm_get_project"))
     \/ TaskLocal([task EXCEPT !.pc = "done", !.ret = "raised",
                               !.err = "cannot import name DeepModeGenerator"])

DM_GetProject ==
  /\ task.pc = "dm_get_project"
  /\ \/ /\ get_project(projects, task.project_id) # None
        /\ TaskLocal([task EXCEPT !.pc = "dm_create_generation", !.found = TRUE])
     \/ /\ get_project(projects, task.project_id) = None
        /\ TaskLocal([task EXCEPT !.pc = "dm_except", !.err = "Project not found"])

DM_CreateGeneration ==
  /\ task.pc = "dm_create_generation"
  /\ \/ /\ generations' = create_generation(generations, task.project_id, "deep_mode")
        /\ task' = [task EXCEPT !.pc = "dm_generate",
                                !.generation_id = Len(generations) + 1]
        /\ UNCHANGED <<deepvars, purevars, now, projects, deliveries, apiCalls, lastCall>>
     \/ Raise("dm_except")

\* Lines 219-234: the generator runs and the task reads output_path,
\* file_count and line_count out of its result.
DM_Generate ==
  /\ task.pc = "dm_generate"
  /\ \/ \E n \in FileCounts, o \in OutputPaths :
          TaskLocal([task EXCEPT !.pc = "dm_completed", !.file_count = n,
                                 !.line_count = 3 * n, !.output_path = o])
     \/ Raise("dm_except")

DM_Completed ==
  /\ task.pc = "dm_completed"
  /\ \/ TaskProjectStatus(COMPLETED, Some(100), Some("Completed"), None,
                          Goto("dm_project_results"))
     \/ Raise("dm_except")

DM_ProjectResults ==
  /\ task.pc = "dm_project_results"
  /\ \/ /\ projects' = update_project_results(projects, task.project_id, task.output_path,
                                              Some(task.file_count), Some(task.line_count))
        /\ task' = Goto("dm_generation_completed")
        /\ UNCHANGED <<deepvars, purevars, now, generations, deliveries, apiCalls, lastCall>>
     \/ Raise("dm_except")

DM_GenerationCompleted ==
  /\ task.pc = "dm_generation_completed"
  /\ \/ TaskGenerationStatus(COMPLETED, Goto("dm_generation_results"))
     \/ Raise("dm_except")

DM_GenerationResults ==
  /\ task.pc = "dm_generation_results"
  /\ \/ /\ generations' =
             update_generation_results(generations, task.generation_id,
               Some([file_count |-> task.file_count, line_count |-> task.line_count]),
               Some([quality_score |-> 95]))
        /\ task' = Return("success")
        /\ UNCHANGED <<deepvars, purevars, now, projects, deliveries, apiCalls, lastCall>>
     \/ Raise("dm_except")

\* The except handler (lines 267-279); its own write is taken to succeed.
DM_Except ==
  /\ task.pc = "dm_except"
  /\ TaskProjectStatus(FAILED, None, None, Some(task.err), Return("failed"))

\* ------------------------------------------------- callers of the store
\* A caller of the two status operations, with any arguments; error_message
\* is given with FAILED.
ApiError(status) == IF status = FAILED THEN Some("api error") ELSE None

ApiUpdateProjectStatus(project_id, status, progress) ==
  /\ apiCalls < MaxApiCalls
  /\ apiCalls' = apiCalls + 1
  /\ projects' = update_project_status(projects, project_id, status, progress, None,
                                       ApiError(status), now)
  /\ lastCall' = ProjectCall("api", projects, project_id, status, progress)
  /\ UNCHANGED <<deepvars, purevars, now, generations, task, deliveries>>

ApiUpdateGenerationStatus(generation_id, status, progress) ==
  /\ apiCalls < MaxApiCalls
  /\ apiCalls' = apiCalls + 1
  /\ generations' = update_generation_status(generations, generation_id, status,
                                             progress, ApiError(status), now)
  /\ lastCall' = GenerationCall("api", generations, generation_id, status, progress)
  /\ UNCHANGED <<deepvars, purevars, now, projects, task, deliveries>>

ApiCreateGeneration ==
  /\ generations = <<>>
  /\ generations' = create_generation(generations, 1, "initial")
  /\ UNCHANGED <<deepvars, purevars, now, projects, task, deliveries, apiCalls, lastCall>>

Tick ==
  /\ now < MaxTime
  /\ now' = now + 1
  /\ UNCHANGED <<deepvars, purevars, projects, generations, task, deliveries, apiCalls, lastCall>>

\* ------------------------------------- deep_mode.py: the text of a content
\* A string is the sequence of its characters.
NL == "\n"
Chars == {"a", " ", NL}
MaxContentLen == 5
MaxOptRuns == 2
Contents == UNION {[1..n -> Chars] : n \in 0..MaxContentLen}

\* str.split(sep): the pieces of s between the occurrences of sep.
RECURSIVE split(_, _)
split(s, sep) ==
  IF \A i \in 1..Len(s) : s[i] # sep
  THEN <<s>>
  ELSE LET k == CHOOSE i \in 1..Len(s) :
                  s[i] = sep /\ \A j \in 1..(i - 1) : s[j] # sep
       IN <<SubSeq(s, 1, k - 1)>> \o split(SubSeq(s, k + 1, Len(s)), sep)

\* sep.join(pieces)
RECURSIVE join(_, _)
join(sep, pieces) ==
  IF Len(pieces) = 0 THEN <<>>
  ELSE IF Len(pieces) = 1 THEN pieces[1]
  ELSE pieces[1] \o <<sep>> \o join(sep, Tail(pieces))

\* not line.strip(): the line is empty or holds whitespace only.
Whitespace == {" ", NL}
Blank(line) == \A i \in 1..Len(line) : line[i] \in Whitespace

\* A loop that lets a blank line through after every dropped one.
PrevBlankToggled(blank, prev_blank) == blank /\ ~prev_blank

\* prev_blank after a line: True after a blank one, False after any other.
PrevBlankAfter(blank, prev_blank) == blank

\* The loop over lines[i..]: a blank line that follows a blank line is dropped.
RECURSIVE OptimizeLoop(_, _, _)
OptimizeLoop(lines, i, prev_blank) ==
  IF i > Len(lines) THEN <<>>
  ELSE LET blank == Blank(lines[i])
           kept == IF blank /\ prev_blank THEN <<>> ELSE <<lines[i]>>
       IN kept \o OptimizeLoop(lines, i + 1, PrevBlankAfter(blank, prev_blank))

\* The lines that are not blank, in their order.
NonBlank(lines) == SelectSeq(lines, LAMBDA line : ~Blank(line))

\* An optimizer that drops every blank line.
_optimize_drop_blank(file_type, content) == join(NL, NonBlank(split(content, NL)))

_optimize_file_content(file_type, content) ==
  join(NL, OptimizeLoop(split(content, NL), 1, FALSE))

\* The optimizer applied to a content, then to its own result.
OptIdle == optIn = <<>> /\ optRuns = <<>>

Optimize ==
  /\ Len(optRuns) < MaxOptRuns
  /\ optRuns' = Append(optRuns,
                  _optimize_file_content("api_route",
                    IF optRuns = <<>> THEN optIn ELSE optRuns[Len(optRuns)]))
  /\ UNCHANGED <<dbvars, deepvars, optIn, scorevars, asmvars, filevars, mmvars>>

\* --------------------------------------------- deep_mode.py: the plan
MaxEndpoints == 2
MaxComponents == 1
EndpointCap == 5
ComponentCap == 10
total_core_files == 20

Slash == "/"
Quote == "\""
required_fields == {"architecture", "tech_stack", "features", "components"}

\* Endpoint paths: a plain one, one whose last segment is the same, one that
\* ends in a slash, and one with a double quote in it.
Paths ==
  { <<Slash, "api", Slash, "items">>, <<Slash, "v1", Slash, "items">>,
    <<Slash, "api", Slash>>, <<Slash, "it", Quote, "ems">> }
\* An endpoint of a plan: its "path" is a string, or is no string (null).
Endpoints == {[path |-> Some(p)] : p \in Paths} \cup {[path |-> None]}
ComponentNames == {None, Some("Header")}
KeySets == {required_fields} \cup {required_fields \ {field} : field \in required_fields}
SeqsUpTo(S, n) == UNION {[1..k -> S] : k \in 0..n}

Plans ==
  { [keys |-> ks, api_endpoints |-> es, ui_components |-> cs] :
      ks \in KeySets,
      es \in SeqsUpTo(Endpoints, MaxEndpoints),
      cs \in SeqsUpTo({[name |-> n] : n \in ComponentNames}, MaxComponents) }

Digits == <<"0", "1", "2", "3", "4", "5", "6", "7", "8", "9">>

\* A plan with one endpoint more than _generate_core_files takes.
LongPlan ==
  [keys |-> required_fields,
   api_endpoints |-> [i \in 1..(EndpointCap + 1) |->
                        [path |-> Some(<<Slash, "api", Slash, Digits[i]>>)]],
   ui_components |-> <<>>]

\* ai_orchestrator.py: the plans the server hands to DeepMode.
AppTypes == {"frontend", "fullstack"}
_design_api(app_type) ==
  IF app_type = "frontend" THEN <<>>
  ELSE << [path |-> Some(<<Slash, "api", Slash, "health">>)],
          [path |-> Some(<<Slash, "api", Slash, "v1", Slash, "items">>)],
          [path |-> Some(<<Slash, "api", Slash, "v1", Slash, "items">>)],
          [path |-> Some(<<Slash, "api", Slash, "v1", Slash, "items", Slash, "{id}">>)] >>
_design_ui ==
  << [name |-> Some("Header")], [name |-> Some("Footer")], [name |-> Some("Sidebar")] >>
Take(s, n) == SubSeq(s, 1, IF Len(s) < n THEN Len(s) ELSE n)
create_app_plan(app_type) ==
  [keys |-> required_fields,
   api_endpoints |-> Take(_design_api(app_type), MaxEndpoints),
   ui_components |-> Take(_design_ui, MaxComponents)]

\* ------------------------------------------- deep_mode.py: files
\* A file path: its directory, its name and its suffix (Path(p).suffix).
FilePath(dir, name, ext) == [dir |-> dir, name |-> name, ext |-> ext]
\* A content: the template it was made from, the endpoint path written into
\* it, and how many times the optimizer has been applied to it.
Content(template, arg) == [template |-> template, arg |-> arg, passes |-> 0]

\* dict[key] = value, and {**a, **b}
Put(d, key, value) ==
  [k \in DOMAIN d \cup {key} |-> IF k = key THEN value ELSE d[k]]
Merge(a, b) ==
  [k \in DOMAIN a \cup DOMAIN b |-> IF k \in DOMAIN b THEN b[k] ELSE a[k]]

\* The file types _create_file_content has a template for; any other file
\* type gets the one-line placeholder comment.
Templates ==
  {"backend_main", "database_models", "api_route", "frontend_page", "frontend_app",
   "package_json", "requirements_txt", "env_file", "dockerfile", "docker_compose"}
_create_file_content(file_type, arg) ==
  IF file_type \in Templates THEN Content(file_type, arg)
  ELSE Content("placeholder", file_type)

\* compile(content, ...) succeeds: the Python templates parse, unless the
\* endpoint path written into the route's string literal holds a quote.
Compiles(content) ==
  CASE content.template = "api_route" ->
         \A i \in 1..Len(content.arg) : content.arg[i] # Quote
    [] content.template \in {"backend_main", "database_models", "test_main",
                              "placeholder"} -> TRUE
    [] OTHER -> FALSE
\* json.loads(content) succeeds: the JSON templates are constant texts.
JsonLoads(content) == content.template \in {"package_json", "tsconfig", "eslintrc"}

\* (is_valid, errors) of one file by its file type; no template is shorter
\* than ten characters.
\* The file types that end in _main or _models, and those that hold "json".
PythonTypes == {"backend_main", "database_models", "extra_main"}
JsonTypes == {"package_json", "data_json"}
SyntaxErrors(file_type, content) ==
  (IF file_type \in PythonTypes /\ ~Compiles(content)
     THEN {"Python syntax error"} ELSE {})
  \cup (IF file_type \in JsonTypes /\ ~JsonLoads(content)
          THEN {"JSON syntax error"} ELSE {})
_validate_file_syntax(file_type, content) == SyntaxErrors(file_type, content) = {}

_fix_syntax_errors(content) == content
OptimizedContent(content) == [content EXCEPT !.passes = @ + 1]

\* generation_stats of a new DeepMode
NewStats ==
  [total_files |-> 0, successful |-> 0, failed |-> 0,
   validation_passes |-> 0, optimization_passes |-> 0]

\* _generate_single_file: the content, and the stats after it.
_generate_single_file(stats, file_type, arg, validate, optimize) ==
  LET created == _create_file_content(file_type, arg)
      is_valid == _validate_file_syntax(file_type, created)
      repair == validate /\ ~is_valid
      fixed == IF repair THEN _fix_syntax_errors(created) ELSE created
  IN [content |-> IF optimize THEN OptimizedContent(fixed) ELSE fixed,
      stats |-> [stats EXCEPT
                   !.validation_passes = IF repair THEN @ + 1 ELSE @,
                   !.optimization_passes = IF optimize THEN @ + 1 ELSE @],
      validations |-> IF validate THEN 1 ELSE 0,
      repairs |-> IF repair THEN 1 ELSE 0]

\* One call of _generate_single_file on a new DeepMode.
FileIdle == fileIn = None /\ fileOut = None

GenerateSingleFile ==
  /\ fileIn # None
  /\ fileOut = None
  /\ fileOut' = Some(_generate_single_file(NewStats, fileIn[1].file_type, fileIn[1].arg,
                                           fileIn[1].validate, fileIn[1].optimize))
  /\ UNCHANGED <<dbvars, deepvars, optvars, scorevars, asmvars, fileIn, mmvars>>
\* One unit of _generate_core_files or _generate_components: the file type,
\* the path the content is stored under, what is written into the template,
\* the optimize flag, and whether an asyncio.sleep follows the unit; raises:
\* the unit's code raises before it makes a file.
Unit(file_type, path, arg, optimize, sleep) ==
  [file_type |-> file_type, path |-> path, arg |-> arg,
   optimize |-> optimize, sleep |-> sleep, raises |-> FALSE]

\* endpoint.get("path", "").split("/")[-1] or "route"
route_name(path) ==
  LET parts == split(path, Slash)
      last == parts[Len(parts)]
  IN IF last = <<>> THEN <<"route">> ELSE last

\* The unit of an endpoint: .split of a path that is no string raises
\* AttributeError.
RouteUnit(endpoint) ==
  IF endpoint.path = None
  THEN [Unit("api_route", None, None, TRUE, TRUE) EXCEPT !.raises = TRUE]
  ELSE Unit("api_route",
            FilePath("backend/api", route_name(endpoint.path[1]), ".py"),
            endpoint.path[1], TRUE, TRUE)

CoreUnits(plan) ==
  LET endpoints == Take(plan.api_endpoints, EndpointCap)
  IN << Unit("backend_main", FilePath("backend", <<"main">>, ".py"), None, TRUE, TRUE),
        Unit("database_models", FilePath("backend", <<"models">>, ".py"), None, TRUE, TRUE) >>
     \o [i \in 1..Len(endpoints) |-> RouteUnit(endpoints[i])]
     \o << Unit("frontend_page", FilePath("frontend/pages", <<"index">>, ".tsx"), None, TRUE, TRUE),
           Unit("frontend_app", FilePath("frontend/pages", <<"_app">>, ".tsx"), None, TRUE, TRUE),
           Unit("package_json", FilePath("frontend", <<"package">>, ".json"), None, FALSE, FALSE),
           Unit("requirements_txt", FilePath("backend", <<"requirements">>, ".txt"), None, FALSE, FALSE),
           Unit("env_file", FilePath("", <<".env">>, ".example"), None, FALSE, FALSE),
           Unit("dockerfile", FilePath("", <<"Dockerfile">>, ""), None, TRUE, FALSE),
           Unit("docker_compose", FilePath("", <<"docker-compose">>, ".yml"), None, FALSE, FALSE) >>

\* comp.get("name", f"Component{i}"), i counted from 0
comp_name(comp, i) ==
  IF comp.name = None THEN <<"Component", Digits[i + 1]>> ELSE comp.name

ComponentUnits(plan) ==
  LET comps == Take(plan.ui_components, ComponentCap)
  IN [i \in 1..Len(comps) |->
        Unit("component",
             FilePath("frontend/components", comp_name(comps[i], i - 1), ".tsx"),
             None, TRUE, TRUE)]

_generate_tests ==
  Put(Put(<<>>, FilePath("tests", <<"test_main">>, ".py"), Content("test_main", None)),
      FilePath("tests", <<"test_pages.test">>, ".tsx"), Content("test_pages", None))

_generate_configurations ==
  Put(Put(Put(<<>>, FilePath("", <<"tsconfig">>, ".json"), Content("tsconfig", None)),
          FilePath("", <<".eslintrc">>, ".json"), Content("eslintrc", None)),
      FilePath("", <<".gitignore">>, ""), Content("gitignore", None))

_generate_documentation ==
  Put(Put(<<>>, FilePath("", <<"README">>, ".md"), Content("readme", None)),
      FilePath("", <<"API">>, ".md"), Content("api_md", None))

\* A set of files in which every file counts as valid.
_validate_all_files_keep(files) ==
  [valid_files |-> files,
   invalid_files |->
     [p \in {q \in DOMAIN files :
               \/ q.ext = ".py" /\ ~Compiles(files[q])
               \/ q.ext = ".json" /\ ~JsonLoads(files[q])} |-> files[p]]]

\* is_valid of one file of the whole set, by the suffix of its path.
ValidFile(file_path, content) ==
  CASE file_path.ext = ".py" -> Compiles(content)
    [] file_path.ext = ".json" -> JsonLoads(content)
    [] OTHER -> TRUE

_validate_all_files(files) ==
  [valid_files |->
     [p \in {q \in DOMAIN files : ValidFile(q, files[q])} |-> files[p]],
   invalid_files |->
     [p \in {q \in DOMAIN files : ~ValidFile(q, files[q])} |-> files[p]]]

_optimize_files(files) == [p \in DOMAIN files |-> OptimizedContent(files[p])]

_assemble_project(files) ==
  [files |-> files, total_files |-> Cardinality(DOMAIN files)]
\* ------------------------------------ deep_mode.py: the quality score
MaxStat == 2
LargeStat == 25
StatValues == (0..MaxStat) \cup {LargeStat}

\* A score is a fraction num / den of integers: success_rate is one.
Min(a, b) == IF a < b THEN a ELSE b
Max(a, b) == IF a > b THEN a ELSE b

\* A score that is returned as it was computed.
Unclamped(score) == score

\* min(score, 100.0)
Clamp(score) ==
  IF score.num > 100 * score.den THEN [num |-> 100 * score.den, den |-> score.den]
  ELSE score

\* (success_rate * 0.7 + validation_bonus + optimization_bonus) * 100, with
\* success_rate = successful / max(total_files, 1).
_calculate_quality_score(stats) ==
  LET den == Max(stats.total_files, 1)
      validation_bonus == Min(stats.validation_passes, 20)
      optimization_bonus == Min(stats.optimization_passes, 10)
  IN Clamp([num |-> 70 * stats.successful
                      + (validation_bonus + optimization_bonus) * den,
            den |-> den])

ScoreIdle == scoreStats = NewStats /\ scoreOut = None

CalculateQualityScore ==
  /\ scoreOut = None
  /\ scoreOut' = Some(_calculate_quality_score(scoreStats))
  /\ UNCHANGED <<dbvars, deepvars, optvars, scoreStats, asmvars, filevars, mmvars>>

\* ------------------------------ deep_mode.py: validation to assembly
\* The files of a sequence of units, each content as the provider made it.
RECURSIVE FilesOf(_)
FilesOf(units) ==
  IF Len(units) = 0 THEN <<>>
  ELSE LET u == units[Len(units)]
       IN Put(FilesOf(SubSeq(units, 1, Len(units) - 1)), u.path,
              _create_file_content(u.file_type, u.arg))

\* Sets of files: route files of some endpoints, with or without the test,
\* configuration and documentation files.
StaticFiles(kinds) ==
  Merge(Merge(IF "tests" \in kinds THEN _generate_tests ELSE <<>>,
              IF "configs" \in kinds THEN _generate_configurations ELSE <<>>),
        IF "docs" \in kinds THEN _generate_documentation ELSE <<>>)
FileSets ==
  { Merge(FilesOf([i \in 1..Len(es) |-> RouteUnit(es[i])]), StaticFiles(kinds)) :
      es \in SeqsUpTo({[path |-> Some(p)] : p \in Paths}, MaxEndpoints),
      kinds \in SUBSET {"tests", "configs", "docs"} }

AsmIdle == asmIn = <<>> /\ asmOut = None

\* Phases 9 to 11 on a set of files: validate, optimize the valid files,
\* assemble.
ValidateOptimizeAssemble ==
  /\ asmOut = None
  /\ asmOut' = Some(_assemble_project(
                      _optimize_files(_validate_all_files(asmIn).valid_files)))
  /\ UNCHANGED <<dbvars, deepvars, optvars, scorevars, asmIn, filevars, mmvars>>

\* ------------------------------ main.py and deep_mode.py: the generations
Runs == {1, 2}

\* DeepMode.__init__
NewDeepMode ==
  [generation_stats |-> NewStats, current_project |-> None, progress_callback |-> None]

\* A _generate_deep_mode_background coroutine before it has started; own is
\* what this generation alone has added to the stats, notified the percents
\* this generation has passed to _notify_progress, in order, finished the
\* number of its _generate_single_file calls that have returned.
NewRun ==
  [pc |-> "new", plan |-> None, current_file |-> 0, notified |-> <<>>, finished |-> 0,
   core_files |-> <<>>, components |-> <<>>, tests |-> <<>>, configs |-> <<>>,
   docs |-> <<>>, validation_results |-> [valid_files |-> <<>>, invalid_files |-> <<>>],
   optimized_files |-> <<>>, final_project |-> None, result |-> None, own |-> NewStats]

DeepInit ==
  /\ dm = NewDeepMode
  /\ runs = [r \in Runs |-> NewRun]
  /\ loop = 0
  /\ store = [r \in Runs |-> [status |-> "initializing", progress |-> None, stats |-> None]]
  /\ events = [r \in Runs |-> None]

\* The argument _notify_progress hands to the callback; run and own record
\* which generation's step made the call and that generation's own counts.
progress_data(d, percent, r) ==
  [project_id |-> d.current_project, progress |-> percent,
   stats |-> d.generation_stats, run |-> r, own |-> runs[r].own]

\* _notify_progress: the last call each callback has received.
_notify_progress(d, percent, r) ==
  IF percent = None \/ d.progress_callback = None THEN events
  ELSE [events EXCEPT ![d.progress_callback[1]] = Some(progress_data(d, percent[1], r))]

\* The update_progress closure of the run whose callback is installed.
update_progress(d, percent) ==
  IF percent = None \/ d.progress_callback = None THEN store
  ELSE [store EXCEPT ![d.progress_callback[1]].progress = percent,
                     ![d.progress_callback[1]].stats = Some(d.generation_stats)]

\* One stretch of run r between two suspension points: a notification made
\* under DeepMode `at`, then the work that leaves DeepMode as `after` and the
\* run as `next`; status is what main.py writes to the project, if anything;
\* yield: the stretch ends in asyncio.sleep or in the end of the coroutine.
Stretch(r, at, percent, after, next, status, yield) ==
  /\ loop \in {0, r}
  /\ events' = _notify_progress(at, percent, r)
  /\ store' = [update_progress(at, percent) EXCEPT
                 ![r].status = IF status = None THEN @ ELSE status[1]]
  /\ dm' = after
  /\ runs' = [runs EXCEPT ![r] =
                [next EXCEPT !.notified = IF percent = None THEN @
                                          ELSE Append(@, percent[1])]]
  /\ loop' = IF yield THEN 0 ELSE r
  /\ UNCHANGED <<dbvars, purevars>>

\* main.py 408-437 and deep_mode.py 57-63
Start(r, plan) ==
  /\ runs[r].pc = "new"
  /\ LET d == [dm EXCEPT !.current_project = Some(r), !.progress_callback = Some(r)]
     IN Stretch(r, d, Some(0), d,
                [runs[r] EXCEPT !.pc = "phase1", !.plan = Some(plan)],
                Some("planning_complete"), FALSE)

\* Phase 1 with a _validate_architecture that lets every plan through.
ValidateArchitectureLax(r) ==
  /\ runs[r].pc = "phase1"
  /\ Stretch(r, dm, Some(5), dm, [runs[r] EXCEPT !.pc = "phase2"], None, FALSE)

\* Phase 1: _validate_architecture raises when a required field is missing.
ValidateArchitecture(r) ==
  /\ runs[r].pc = "phase1"
  /\ Stretch(r, dm, Some(5), dm,
             [runs[r] EXCEPT !.pc = IF required_fields \subseteq runs[r].plan[1].keys
                                    THEN "phase2" ELSE "except"],
             None, FALSE)

ResolveDependencies(r) ==
  /\ runs[r].pc = "phase2"
  /\ Stretch(r, dm, Some(10), dm, [runs[r] EXCEPT !.pc = "phase3"], None, FALSE)

GenerateFileTree(r) ==
  /\ runs[r].pc = "phase3"
  /\ Stretch(r, dm, Some(15), dm, [runs[r] EXCEPT !.pc = "phase4"], None, FALSE)

BeginCoreFiles(r) ==
  /\ runs[r].pc = "phase4"
  /\ Stretch(r, dm, Some(20), dm,
             [runs[r] EXCEPT !.pc = "core", !.current_file = 0], None, FALSE)

\* A per-file percent that climbs four points a file.
core_percent_steep(current_file) == 20 + current_file * 4

\* 20 + int((current_file / total_core_files) * 40)
core_percent(current_file) == 20 + (current_file * 40) \div total_core_files

\* The stats after the last unit of _generate_core_files (lines 484-485).
CoreFilesCounted(stats, core_files) ==
  [stats EXCEPT !.total_files = @ + Cardinality(DOMAIN core_files),
                !.successful = @ + Cardinality(DOMAIN core_files)]

\* One unit of _generate_core_files: the notification, the file, the sleep;
\* a unit that raises leaves the try block for the except clause.
CoreFile(r) ==
  /\ runs[r].pc = "core"
  /\ LET units == CoreUnits(runs[r].plan[1])
         current_file == runs[r].current_file + 1
         u == units[current_file]
         last == current_file = Len(units)
         made == _generate_single_file(dm.generation_stats, u.file_type, u.arg, TRUE, u.optimize)
         mine == _generate_single_file(runs[r].own, u.file_type, u.arg, TRUE, u.optimize)
         core_files == Put(runs[r].core_files, u.path, made.content)
     IN IF u.raises
        THEN Stretch(r, dm, None, dm,
                     [runs[r] EXCEPT !.pc = "except", !.current_file = current_file],
                     None, FALSE)
        ELSE Stretch(r, dm,
                Some(core_percent(current_file)),
                [dm EXCEPT !.generation_stats =
                   IF last THEN CoreFilesCounted(made.stats, core_files) ELSE made.stats],
                [runs[r] EXCEPT
                   !.pc = IF last THEN "phase5" ELSE "core",
                   !.current_file = current_file,
                   !.finished = @ + 1,
                   !.core_files = core_files,
                   !.own = IF last THEN CoreFilesCounted(mine.stats, core_files) ELSE mine.stats],
                None, u.sleep)

\* Phase 5 begins; with no component in the plan it is over at once.
BeginComponents(r) ==
  /\ runs[r].pc = "phase5"
  /\ Stretch(r, dm, Some(60), dm,
             [runs[r] EXCEPT
                !.pc = IF ComponentUnits(runs[r].plan[1]) = <<>> THEN "phase6"
                       ELSE "components",
                !.current_file = 0],
             None, FALSE)

\* One unit of _generate_components: the file and the sleep, no notification.
ComponentFile(r) ==
  /\ runs[r].pc = "components"
  /\ LET units == ComponentUnits(runs[r].plan[1])
         i == runs[r].current_file + 1
         u == units[i]
         made == _generate_single_file(dm.generation_stats, u.file_type, u.arg, TRUE, u.optimize)
         mine == _generate_single_file(runs[r].own, u.file_type, u.arg, TRUE, u.optimize)
     IN Stretch(r, dm, None,
                [dm EXCEPT !.generation_stats = made.stats],
                [runs[r] EXCEPT
                   !.pc = IF i = Len(units) THEN "phase6" ELSE "components",
                   !.current_file = i,
                   !.finished = @ + 1,
                   !.components = Put(@, u.path, made.content),
                   !.own = mine.stats],
                None, u.sleep)

\* Phase 6 begun without awaiting _generate_components to its end.
GenerateTestsEarly(r) ==
  /\ runs[r].pc \in {"components", "phase6"}
  /\ Stretch(r, dm, Some(75), dm,
             [runs[r] EXCEPT !.pc = "phase7", !.tests = _generate_tests], None, FALSE)

GenerateTests(r) ==
  /\ runs[r].pc = "phase6"
  /\ Stretch(r, dm, Some(75), dm,
             [runs[r] EXCEPT !.pc = "phase7", !.tests = _generate_tests], None, FALSE)

GenerateConfigurations(r) ==
  /\ runs[r].pc = "phase7"
  /\ Stretch(r, dm, Some(80), dm,
             [runs[r] EXCEPT !.pc = "phase8", !.configs = _generate_configurations],
             None, FALSE)

GenerateDocumentation(r) ==
  /\ runs[r].pc = "phase8"
  /\ Stretch(r, dm, Some(85), dm,
             [runs[r] EXCEPT !.pc = "phase9", !.docs = _generate_documentation],
             None, FALSE)

\* {**core_files, **components, **tests, **configs, **docs}
AllFiles(run) ==
  Merge(Merge(Merge(Merge(run.core_files, run.components), run.tests),
              run.configs), run.docs)

ValidateAllFiles(r) ==
  /\ runs[r].pc = "phase9"
  /\ Stretch(r, dm, Some(88), dm,
             [runs[r] EXCEPT !.pc = "phase10",
                             !.validation_results = _validate_all_files(AllFiles(runs[r]))],
             None, FALSE)

OptimizeFiles(r) ==
  /\ runs[r].pc = "phase10"
  /\ Stretch(r, dm, Some(95), dm,
             [runs[r] EXCEPT !.pc = "phase11",
                !.optimized_files = _optimize_files(runs[r].validation_results.valid_files)],
             None, FALSE)

AssembleProject(r) ==
  /\ runs[r].pc = "phase11"
  /\ Stretch(r, dm, Some(98), dm,
             [runs[r] EXCEPT !.pc = "finish",
                !.final_project = Some(_assemble_project(runs[r].optimized_files))],
             None, FALSE)

\* The last notification, the return, and main.py saving the result.
Complete(r) ==
  /\ runs[r].pc = "finish"
  /\ Stretch(r, dm, Some(100), dm,
             [runs[r] EXCEPT !.pc = "done",
                !.result = Some([status |-> "success",
                                 project |-> runs[r].final_project[1],
                                 stats |-> dm.generation_stats,
                                 quality_score |-> _calculate_quality_score(dm.generation_stats),
                                 validation_report |-> runs[r].validation_results])],
             Some("completed"), TRUE)

\* The except clause of generate_app_deep_mode, and that of main.py.
Fail(r) ==
  /\ runs[r].pc = "except"
  /\ Stretch(r, dm, Some(-1), dm, [runs[r] EXCEPT !.pc = "done"], Some("error"), TRUE)

PipelineStep(r) ==
  \/ ValidateArchitecture(r) \/ ResolveDependencies(r) \/ GenerateFileTree(r)
  \/ BeginCoreFiles(r) \/ CoreFile(r) \/ BeginComponents(r) \/ ComponentFile(r)
  \/ GenerateTests(r) \/ GenerateConfigurations(r) \/ GenerateDocumentation(r)
  \/ ValidateAllFiles(r) \/ OptimizeFiles(r) \/ AssembleProject(r)
  \/ Complete(r)

RunStep(r) == PipelineStep(r) \/ Fail(r)

\* --------------------------------------------------- model_manager.py
\* The back-ends of generate_code in the order of its four blocks.
Backends == <<"ollama", "transformers", "huggingface", "replicate">>
Languages == {"python", "javascript", "typescript", "rust"}

\* A ModelManager after __init__ with the given back-ends available, and a
\* generate_code call on it that has not started: at is the block the call
\* is before, calls the back-end calls made so far with their outcome.
NewModelManager(available, language) ==
  [available |-> available, language |-> language, at |-> 1, calls |-> <<>>,
   result |-> None]

\* templates.get(language, templates["python"])
_generate_template_code(language) ==
  [from |-> "template",
   text |-> IF language \in {"python", "javascript", "typescript"} THEN language
            ELSE "python"]

\* A try block whose return is skipped: the call goes on to the next block
\* also after a back-end has answered.
AttemptGoOn(m, i, ok) ==
  [m EXCEPT !.calls = Append(@, [backend |-> Backends[i], ok |-> ok]),
            !.at = i + 1]

\* One block of generate_code whose back-end is available: the return of
\* the back-end's answer, or the except clause and the next block.
Attempt(m, i, ok) ==
  [m EXCEPT !.calls = Append(@, [backend |-> Backends[i], ok |-> ok]),
            !.result = IF ok THEN Some([from |-> Backends[i], text |-> "generated"])
                       ELSE @,
            !.at = IF ok THEN 6 ELSE i + 1]

Try(i) ==
  /\ mm # None
  /\ mm[1].at = i
  /\ IF Backends[i] \in mm[1].available
     THEN \E ok \in BOOLEAN : mm' = Some(Attempt(mm[1], i, ok))
     ELSE mm' = Some([mm[1] EXCEPT !.at = i + 1])
  /\ UNCHANGED <<dbvars, deepvars, optvars, scorevars, asmvars, filevars>>

TryOllama == Try(1)
TryTransformers == Try(2)
TryHuggingFace == Try(3)
TryReplicate == Try(4)

TemplateFallback ==
  /\ mm # None
  /\ mm[1].at = 5
  /\ mm' = Some([mm[1] EXCEPT !.result = Some(_generate_template_code(mm[1].language)),
                              !.at = 6])
  /\ UNCHANGED <<dbvars, deepvars, optvars, scorevars, asmvars, filevars>>

MmIdle == mm = None

\* ---------------------------------------------- the task and record machine
DbInit ==
  /\ now = 0
  /\ projects = [id \in ProjectIds |-> Project]
  /\ generations = <<>>
  /\ task = IdleTask
  /\ deliveries = 0
  /\ apiCalls = 0
  /\ lastCall = NoCall

Init ==
  /\ DbInit
  /\ DeepInit
  /\ OptIdle
  /\ ScoreIdle
  /\ AsmIdle
  /\ FileIdle
  /\ MmIdle

TaskStep ==
  \/ GA_Analyzing \/ GA_GetProject \/ GA_CreateGeneration \/ GA_Planning
  \/ GA_CreateAppPlan \/ GA_Generating \/ GA_GenerateFullApp \/ GA_Building
  \/ GA_SaveFiles \/ GA_Testing \/ GA_Completed \/ GA_ProjectResults
  \/ GA_GenerationCompleted \/ GA_GenerationResults \/ GA_Except
  \/ DM_Import \/ DM_GetProject \/ DM_CreateGeneration \/ DM_Generate
  \/ DM_Completed \/ DM_ProjectResults \/ DM_GenerationCompleted
  \/ DM_GenerationResults \/ DM_Except

\* The worker: one task message, its run, and its redeliveries.
Next ==
  \/ \E kind \in {"generate_app", "generate_app_deep_mode"}, id \in ProjectArgs :
       Deliver(kind, id)
  \/ TaskStep
  \/ Ack
  \/ WorkerLost
  \/ Tick

Spec == Init /\ [][Next]_vars

\* An external cancellation request while a task runs. The code has no
\* operation for it; the one place it can be recorded is the status of the
\* project row, ProjectStatus.CANCELLED.
CancelRequest(project_id) ==
  /\ apiCalls = 0
  /\ task.pc \notin {"idle", "done", "acked"}
  /\ ApiUpdateProjectStatus(project_id, CANCELLED, None)

\* The worker running one task, and a cancellation request during it.
NextCancel ==
  \/ \E kind \in {"generate_app", "generate_app_deep_mode"}, id \in ProjectArgs :
       Deliver(kind, id)
  \/ TaskStep
  \/ Ack
  \/ \E id \in ProjectIds : CancelRequest(id)

SpecCancel == Init /\ [][NextCancel]_vars

\* The record store under a caller of its status operations.
NextApi ==
  \/ \E id \in ProjectArgs, s \in ProjectStatus, p \in ApiProgress :
       ApiUpdateProjectStatus(id, s, p)
  \/ \E id \in {1, 2}, s \in ProjectStatus, p \in ApiProgress :
       ApiUpdateGenerationStatus(id, s, p)
  \/ ApiCreateGeneration
  \/ Tick

SpecApi == Init /\ [][NextApi]_vars

\* One generation on a new DeepMode, for every plan.
NextDeep ==
  \/ \E plan \in Plans \cup {LongPlan} : Start(1, plan)
  \/ RunStep(1)

SpecDeep == Init /\ [][NextDeep]_vars

\* The server: two background generations on the one DeepMode of main.py,
\* interleaved where they sleep; a plan of create_app_plan has every
\* required field, so no generation reaches the except clause.
NextServer ==
  \/ \E r \in Runs, app_type \in AppTypes : Start(r, create_app_plan(app_type))
  \/ \E r \in Runs : PipelineStep(r)

SpecServer == Init /\ [][NextServer]_vars

\* _optimize_file_content on every content.
InitOpt ==
  /\ DbInit
  /\ DeepInit
  /\ optIn \in Contents
  /\ optRuns = <<>>
  /\ ScoreIdle
  /\ AsmIdle
  /\ FileIdle
  /\ MmIdle

NextOpt == Optimize

SpecOpt == InitOpt /\ [][NextOpt]_vars

\* _calculate_quality_score on every stats of non-negative counts.
InitScore ==
  /\ DbInit
  /\ DeepInit
  /\ OptIdle
  /\ scoreStats \in [total_files : StatValues, successful : StatValues,
                      failed : {0}, validation_passes : StatValues,
                      optimization_passes : StatValues]
  /\ scoreOut = None
  /\ AsmIdle
  /\ FileIdle
  /\ MmIdle

NextScore == CalculateQualityScore

SpecScore == InitScore /\ [][NextScore]_vars

\* Validation, optimization and assembly on every set of files.
InitAssemble ==
  /\ DbInit
  /\ DeepInit
  /\ OptIdle
  /\ ScoreIdle
  /\ asmIn \in FileSets
  /\ asmOut = None
  /\ FileIdle
  /\ MmIdle

NextAssemble == ValidateOptimizeAssemble

SpecAssemble == InitAssemble /\ [][NextAssemble]_vars

\* _generate_single_file on every file type, with and without a template.
FileTypes == Templates \cup {"data_json", "extra_main"}
InitFile ==
  /\ DbInit
  /\ DeepInit
  /\ OptIdle
  /\ ScoreIdle
  /\ AsmIdle
  /\ fileIn \in {Some([file_type |-> ft, arg |-> a, validate |-> v, optimize |-> o]) :
                    ft \in FileTypes, a \in {None} \cup Paths, v \in BOOLEAN, o \in BOOLEAN}
  /\ fileOut = None
  /\ MmIdle

NextFile == GenerateSingleFile

SpecFile == InitFile /\ [][NextFile]_vars

\* generate_code on every ModelManager, with every outcome of the back-ends.
InitModel ==
  /\ DbInit
  /\ DeepInit
  /\ OptIdle
  /\ ScoreIdle
  /\ AsmIdle
  /\ FileIdle
  /\ mm \in {Some(NewModelManager(available, language)) :
               available \in SUBSET {Backends[i] : i \in DOMAIN Backends},
               language \in Languages}

NextModel ==
  \/ TryOllama \/ TryTransformers \/ TryHuggingFace \/ TryReplicate
  \/ TemplateFallback

SpecModel == InitModel /\ [][NextModel]_vars

\* ============================================================== the claims
Terminal == {COMPLETED, FAILED, CANCELLED}

\* The legal edges of the generation state machine.
Chain == <<PENDING, ANALYZING, PLANNING, GENERATING, BUILDING, TESTING, COMPLETED>>
LegalEdge(s, t) ==
  \/ \E i \in 1..(Len(Chain) - 1) : s = Chain[i] /\ t = Chain[i + 1]
  \/ s \notin Terminal /\ t \in {FAILED, CANCELLED}

\* C1: terminal states are absorbing: once a project or generation row has
\* status completed, failed or cancelled, no later status call and no later
\* task step gives it a different status.
C1_TerminalAbsorbing ==
  [][/\ \A id \in DOMAIN projects :
          projects[id].status \in Terminal
            => projects'[id].status = projects[id].status
     /\ \A g \in DOMAIN generations :
          generations[g].status \in Terminal
            => generations'[g].status = generations[g].status]_vars

\* The row a call was about, as the table holds it now (None when missing).
StoredStatus(call) ==
  IF call.fn = "update_project_status"
  THEN IF call.id \in DOMAIN projects THEN Some(projects[call.id].status) ELSE None
  ELSE IF call.id \in DOMAIN generations
       THEN Some(generations[call.id].status) ELSE None

\* A request the state machine must refuse: the row is missing, or s -> t is
\* no legal edge (a request for the state the row is already in is left out:
\* re-applying a terminal state is not an error).
IllegalRequest(call) ==
  \/ call.was = None
  \/ /\ ~LegalEdge(call.was[1], call.status)
     /\ call.status # call.was[1]

\* C2: a transition request that is not a legal edge fails with
\* InvalidTransition and leaves the stored status as it was; it is never
\* silently accepted, nor silently ignored for a missing row.
C2_IllegalTransitionRejected ==
  (lastCall.fn # "none" /\ IllegalRequest(lastCall))
    => /\ lastCall.raised = "InvalidTransition"
       /\ StoredStatus(lastCall) = lastCall.was

\* C3: the stored progress of a project or generation never decreases.
C3_ProgressMonotonic ==
  [][/\ \A id \in DOMAIN projects : projects'[id].progress >= projects[id].progress
     /\ \A g \in DOMAIN generations :
          generations'[g].progress >= generations[g].progress]_vars

\* C4: every run of a task that has returned, with success or through its
\* except handler, has left the project row and the Generation row it
\* created in completed, failed or cancelled.
C4_RunEndsTerminal ==
  (task.pc \in {"done", "acked"} /\ task.ret \in {"success", "failed"})
    => /\ task.project_id \in DOMAIN projects
            => projects[task.project_id].status \in Terminal
       /\ task.generation_id # 0
            => generations[task.generation_id].status \in Terminal

C9_ReapplyCompletedIdempotent ==
  [][(/\ apiCalls' = apiCalls + 1
      /\ lastCall'.status = COMPLETED
      /\ lastCall'.progress = None
      /\ lastCall'.was = Some(COMPLETED))
     => /\ lastCall'.raised = ""
        /\ projects' = projects
        /\ generations' = generations]_vars


\* C5: within one generation the percent values handed to the progress
\* callback never decrease, whatever the plan, in a run that ends in an
\* error as in one that completes.
C5_PercentNonDecreasing ==
  [][\A r \in Runs :
       events[r] # None /\ events'[r] # None
         => events'[r][1].progress >= events[r][1].progress]_vars

\* C6: every path among the files of a returned project is a path whose
\* content passed the validation of the whole set, and no path reported in
\* invalid_files is among them.
C6_OnlyValidFilesAssembled ==
  \A r \in Runs :
    runs[r].result # None =>
      LET res == runs[r].result[1]
          all == AllFiles(runs[r])
      IN \A p \in DOMAIN res.project.files :
           /\ p \in DOMAIN all
           /\ ValidFile(p, all[p])
           /\ p \notin DOMAIN res.validation_report.invalid_files

\* A completed generation with a file in invalid_files and files assembled.
C6_Witness ==
  \E r \in Runs :
    /\ runs[r].result # None
    /\ DOMAIN runs[r].result[1].validation_report.invalid_files # {}
    /\ DOMAIN runs[r].result[1].project.files # {}

\* C7: two generations interleaved on the server share no state: a call to
\* a generation's callback comes from that generation, carries its project
\* id and stats that count its own units only, and the stats a generation
\* returns are its own counts from zero.
C7_GenerationsShareNoState ==
  \A r \in Runs :
    /\ events[r] # None =>
         /\ events[r][1].run = r
         /\ events[r][1].project_id = Some(r)
         /\ events[r][1].stats = events[r][1].own
    /\ runs[r].result # None => runs[r].result[1].stats = runs[r].own

\* C10: _optimize_file_content applied to its own output returns that
\* output unchanged.
C10_OptimizeIdempotent ==
  Len(optRuns) >= 2 => optRuns[2] = optRuns[1]

\* The optimizer dropped a blank line of the content, and was applied again.
C10_Witness ==
  /\ Len(optRuns) >= 2
  /\ optRuns[1] # optIn
  /\ \E i \in 1..Len(optIn) : optIn[i] = " "


\* C11: the quality score lies in [0, 100] for every stats of non-negative
\* counts, with successful above total_files and with total_files 0 as well.
C11_ScoreInRange ==
  scoreOut # None =>
    /\ 0 <= scoreOut[1].num
    /\ scoreOut[1].num <= 100 * scoreOut[1].den

\* A score computed from no files and more successes than files, cut to 100.
C11_Witness ==
  /\ scoreOut # None
  /\ scoreStats.total_files = 0
  /\ scoreStats.successful > scoreStats.total_files
  /\ scoreOut[1].num = 100 * scoreOut[1].den


\* Every unit of the run's plan gets a content that passes the validation
\* of its file type at once.
FirstPassValid(run) ==
  LET units == CoreUnits(run.plan[1]) \o ComponentUnits(run.plan[1])
  IN \A i \in 1..Len(units) :
       _validate_file_syntax(units[i].file_type,
                             _create_file_content(units[i].file_type, units[i].arg))

\* C12: a run in which every unit succeeds and validates on the first pass
\* ends completed with validation passes equal to the number of units and a
\* quality score above 90.
C12_AllSucceedScenario ==
  \A r \in Runs :
    (runs[r].result # None /\ FirstPassValid(runs[r])) =>
      LET res == runs[r].result[1]
      IN /\ store[r].status = "completed"
         /\ res.stats.validation_passes = res.stats.total_files
         /\ res.quality_score.num > 90 * res.quality_score.den


\* A core unit of the plan raises.
CoreUnitFails(plan) ==
  \E i \in 1..Len(CoreUnits(plan)) : CoreUnits(plan)[i].raises

\* C13: a run in which one core unit fails ends in the failed state (main.py
\* records it as "error") with the failure counted: stats failed = 1.
C13_CoreUnitFailureCounted ==
  \A r \in Runs :
    /\ runs[r].pc = "done"
    /\ required_fields \subseteq runs[r].plan[1].keys
    /\ CoreUnitFails(runs[r].plan[1])
    => /\ store[r].status \in {"failed", "error"}
       /\ dm.generation_stats.failed = 1


\* C14: a completed run holds one file for each unit it ran: as many core
\* files as core units and as many component files as component units, so no
\* unit's file was replaced by the file of another unit.
C14_OneFilePerUnit ==
  \A r \in Runs :
    runs[r].result # None =>
      /\ Cardinality(DOMAIN runs[r].core_files) = Len(CoreUnits(runs[r].plan[1]))
      /\ Cardinality(DOMAIN runs[r].components) = Len(ComponentUnits(runs[r].plan[1]))


\* C15: when cancellation is requested between two phases of a run, after
\* one is over and before the next starts, the run starts no later phase:
\* the project stays cancelled.
PhaseStarts == {"ga_planning", "ga_generating", "ga_building", "ga_testing"}
C15_CancelAtPhaseBoundary ==
  [][\A id \in ProjectIds :
       /\ task.pc \in PhaseStarts
       /\ task.project_id = id
       /\ projects[id].status = CANCELLED
       => projects'[id].status = CANCELLED]_vars

\* C16: assembly rejects an empty set of valid files: when the validation
\* of a set of files leaves no valid file, no project is returned for it.
C16_EmptyAssemblyRejected ==
  (DOMAIN asmIn # {} /\ DOMAIN _validate_all_files(asmIn).valid_files = {})
    => asmOut = None


\* C17: the percent of every progress event, and every progress written to
\* the project record from an event, is an integer from 0 to 100.
C17_PercentInRange ==
  \A r \in Runs :
    /\ events[r] # None => events[r][1].progress \in 0..100
    /\ store[r].progress # None => store[r].progress[1] \in 0..100


\* C18: every status a run of generate_app writes to the project row is a
\* legal edge from the status the row held before the write.
C18_TaskWritesLegalEdges ==
  [][\A id \in ProjectIds :
       /\ task'.kind = "generate_app"
       /\ projects'[id].status # projects[id].status
       => LegalEdge(projects[id].status, projects'[id].status)]_vars

\* The percents of the phase-start notifications of generate_app_deep_mode,
\* phase 1 to phase 11.
PhaseOrder == <<5, 10, 15, 20, 60, 75, 80, 85, 88, 95, 98>>

IsPhaseStart(percent) == \E k \in DOMAIN PhaseOrder : PhaseOrder[k] = percent

\* Every unit of the phase has put its file into the phase's result.
UnitsDone(units, files) == \A i \in DOMAIN units : units[i].path \in DOMAIN files

\* Phase k of the run has produced something.
Begun(run) ==
  << FALSE, FALSE, FALSE,
     run.core_files # <<>>, run.components # <<>>, run.tests # <<>>,
     run.configs # <<>>, run.docs # <<>>,
     run.validation_results # NewRun.validation_results,
     run.optimized_files # <<>>, run.final_project # None >>

\* Phase k of the run is over, for the phases that produce files.
Over(run) ==
  << TRUE, TRUE, TRUE,
     UnitsDone(CoreUnits(run.plan[1]), run.core_files),
     UnitsDone(ComponentUnits(run.plan[1]), run.components),
     run.tests = _generate_tests,
     run.configs = _generate_configurations,
     run.docs = _generate_documentation,
     run.validation_results = _validate_all_files(AllFiles(run)),
     run.optimized_files = _optimize_files(run.validation_results.valid_files),
     run.final_project # None >>

\* C19: within one generation the phases run strictly one after the other:
\* a phase has produced nothing before every unit of each earlier phase is
\* complete, and the phase-start notifications of the generation are a
\* prefix of the fixed order of phases 1 to 11.
C19_PhasesSequential ==
  \A r \in Runs :
    LET starts == SelectSeq(runs[r].notified, IsPhaseStart)
    IN /\ starts = SubSeq(PhaseOrder, 1, Len(starts))
       /\ runs[r].plan # None =>
            \A k \in DOMAIN PhaseOrder : \A j \in 1..(k - 1) :
              Begun(runs[r])[k] => Over(runs[r])[j]

\* A generation that went through all phases, with route and component units.
C19_Witness ==
  /\ runs[1].pc = "done"
  /\ runs[1].result # None
  /\ runs[1].components # <<>>
  /\ Cardinality(DOMAIN runs[1].core_files) > 9
  /\ SelectSeq(runs[1].notified, IsPhaseStart) = PhaseOrder

\* The call is on a file type whose created content fails validation.
FailsValidation(call) ==
  /\ call.validate
  /\ SyntaxErrors(call.file_type, _create_file_content(call.file_type, call.arg)) # {}

\* C20: for a unit whose content fails validation, the file pipeline makes
\* exactly one repair pass and then validates the content exactly once more
\* (two validations in all) before it keeps the content as invalid.
C20_RepairThenRevalidate ==
  (fileOut # None /\ FailsValidation(fileIn[1]))
    => /\ fileOut[1].repairs = 1
       /\ fileOut[1].validations = 2

\* C21: the file pipeline optimizes a content, and counts an optimization
\* pass, only when the unit asks for it and the content is valid; a content
\* that failed validation is never optimized.
C21_OptimizeOnlyValid ==
  fileOut # None =>
    LET optimized == fileOut[1].content.passes > 0
                       \/ fileOut[1].stats.optimization_passes > 0
    IN optimized => fileIn[1].optimize /\ ~FailsValidation(fileIn[1])

\* The percent band of the phase a generation is in, by its position.
Band(pc) ==
  CASE pc = "phase1" -> 0..10
    [] pc = "phase2" -> 10..20
    [] pc = "phase3" -> 20..25
    [] pc \in {"phase4", "core"} -> 25..65
    [] pc \in {"phase5", "components"} -> 65..80
    [] pc \in {"phase6", "phase7", "phase8"} -> 80..90
    [] pc = "phase9" -> 90..95
    [] pc = "phase10" -> 95..98
    [] pc = "phase11" -> 98..100
    [] OTHER -> -1..100

\* C22: every progress event a generation emits while it is in a phase has
\* a percent inside the band of that phase.
C22_PercentInPhaseBand ==
  [][\A r \in Runs :
       Len(runs'[r].notified) > Len(runs[r].notified)
         => runs'[r].notified[Len(runs'[r].notified)] \in Band(runs[r].pc)]_vars

\* C23: the stats are updated after each unit: at every point of a
\* generation total_files is the number of units whose file pipeline has
\* finished so far, and successful + failed = total_files.
C23_StatsFollowUnits ==
  LET stats == dm.generation_stats
  IN /\ stats.total_files = runs[1].finished + runs[2].finished
     /\ stats.successful + stats.failed = stats.total_files

\* The record is in completed or failed with both timestamps set and the
\* stored time their difference in whole seconds.
Timed(r, timeField) ==
  r.status \in {COMPLETED, FAILED} =>
    /\ r.started_at # None
    /\ r.completed_at # None
    /\ r[timeField] = Some(total_seconds(r.completed_at[1], r.started_at[1]))

\* C24: every project and every Generation record that has reached
\* completed or failed has started_at and completed_at set and its stored
\* total time is completed_at - started_at in whole seconds, on every path
\* of the tasks, also one that never passes through generating.
C24_TerminalRecordsTimed ==
  /\ \A id \in ProjectIds : Timed(projects[id], "actual_time")
  /\ \A g \in DOMAIN generations : Timed(generations[g], "total_time")

\* The back-ends of the manager that are available, in the fixed order.
AvailableInOrder(m) ==
  SelectSeq(Backends, LAMBDA b : b \in m.available)

\* C25: generate_code tries the available back-ends in the order Ollama,
\* Transformers, Hugging Face, Replicate; it returns the answer of the first
\* one that succeeds and calls none after it; when every available back-end
\* has failed, or none is available, it returns the template result.
C25_FallbackOrder ==
  mm # None =>
    LET m == mm[1]
        tried == [k \in DOMAIN m.calls |-> m.calls[k].backend]
    IN /\ tried = SubSeq(AvailableInOrder(m), 1, Len(tried))
       /\ \A k \in DOMAIN m.calls : m.calls[k].ok => k = Len(m.calls)
       /\ m.at = 6 => m.result # None
       /\ m.result # None =>
            IF \E k \in DOMAIN m.calls : m.calls[k].ok
            THEN m.result[1].from = m.calls[Len(m.calls)].backend
            ELSE /\ m.result[1] = _generate_template_code(m.language)
                 /\ tried = AvailableInOrder(m)

\* A call that got its answer from the third back-end after two failures.
C25_Witness ==
  /\ mm # None
  /\ mm[1].result # None
  /\ mm[1].result[1].from = "huggingface"
  /\ Len(mm[1].calls) = 3

\* The plan of the run lacks a required field.
Malformed(run) == run.plan # None /\ ~(required_fields \subseteq run.plan[1].keys)

\* C26: a plan that lacks one of architecture, tech_stack, features,
\* components is rejected in the architecture-validation phase: the run
\* raises before a dependency is resolved or a unit is run, it produces no
\* file, and the stats counters stay as they were.
C26_MalformedPlanRejected ==
  \A r \in Runs :
    Malformed(runs[r]) =>
      /\ runs[r].pc \in {"phase1", "except", "done"}
      /\ \A i \in DOMAIN runs[r].notified : runs[r].notified[i] \in {0, 5, -1}
      /\ runs[r].finished = 0
      /\ AllFiles(runs[r]) = <<>>
      /\ runs[r].result = None
      /\ runs[r].own = NewStats
      /\ dm.generation_stats = NewStats

\* A run on a plan without a required field that has raised and ended.
C26_Witness ==
  /\ Malformed(runs[1])
  /\ runs[1].pc = "done"
  /\ runs[1].notified = <<0, 5, -1>>

\* The indices of the lines that are not blank, in their order.
NonBlankAt(lines) ==
  SelectSeq([i \in 1..Len(lines) |-> i], LAMBDA i : ~Blank(lines[i]))

\* C27: the optimizer keeps the content: the non-blank lines of its output
\* are those of its input in the same order, the output has no two blank
\* lines in a row, and between two non-blank lines that follow each other
\* the output has a blank line exactly when the input had at least one.
C27_OptimizePreservesContent ==
  Len(optRuns) >= 1 =>
    LET x == split(optIn, NL)
        y == split(optRuns[1], NL)
        xs == NonBlankAt(x)
        ys == NonBlankAt(y)
    IN /\ NonBlank(y) = NonBlank(x)
       /\ \A i \in 1..(Len(y) - 1) : ~(Blank(y[i]) /\ Blank(y[i + 1]))
       /\ \A k \in 1..(Len(xs) - 1) :
            (ys[k + 1] - ys[k] > 1) <=> (xs[k + 1] - xs[k] > 1)

\* The optimizer was applied to a content with more than one blank line
\* between two lines that are not blank.
C27_Witness ==
  /\ Len(optRuns) >= 1
  /\ LET xs == NonBlankAt(split(optIn, NL))
     IN \E k \in 1..(Len(xs) - 1) : xs[k + 1] - xs[k] > 2

\* generate_app has written COMPLETED to the project in this run and has
\* not yet returned.
WritingOutcome ==
  /\ task.kind = "generate_app"
  /\ task.pc \in {"ga_project_results", "ga_generation_completed", "ga_generation_results"}

NoPhaseRaised(run) ==
  /\ run.plan # None
  /\ run.pc # "except"
  /\ \A i \in DOMAIN run.notified : run.notified[i] # -1

\* C29: in a generation in which no phase raises, for every plan, the
\* percents it emits never decrease, every event up to the end of the
\* core-file phase is at most 60 (at most 14 core units are generated, so
\* the per-file percent stays below the 60 of the next phase), and the last
\* event of the finished generation is 100.
C29_PercentsOfCleanRun ==
  \A r \in Runs :
    NoPhaseRaised(runs[r]) =>
      LET n == runs[r].notified
      IN /\ \A i \in 1..(Len(n) - 1) : n[i] <= n[i + 1]
         /\ Len(CoreUnits(runs[r].plan[1])) <= 14
         /\ runs[r].pc \in {"core", "phase5"} => \A i \in DOMAIN n : n[i] <= 60
         /\ runs[r].pc = "done" => n[Len(n)] = 100

\* A finished generation on a plan with more endpoints than the cap: all
\* fourteen core units were made.
C29_Witness ==
  /\ NoPhaseRaised(runs[1])
  /\ runs[1].pc = "done"
  /\ Len(runs[1].plan[1].api_endpoints) > EndpointCap
  /\ \E i \in DOMAIN runs[1].notified : runs[1].notified[i] = core_percent(14)

\* C30: failing a run changes the failure fields only: when the except
\* handler of generate_app moves a project to failed, the progress,
\* current_phase, output_path, file_count and line_count of the project are
\* what they were, started_at is never overwritten once it is set, and
\* error_message is the text of the error.
C30_FailureFrame ==
  [][\A id \in ProjectIds :
       /\ projects[id].started_at # None
            => projects'[id].started_at = projects[id].started_at
       /\ (task.pc = "ga_except" /\ task.project_id = id /\ task'.ret = "failed")
            => /\ projects'[id].status = FAILED
               /\ projects'[id].progress = projects[id].progress
               /\ projects'[id].current_phase = projects[id].current_phase
               /\ projects'[id].output_path = projects[id].output_path
               /\ projects'[id].file_count = projects[id].file_count
               /\ projects'[id].line_count = projects[id].line_count
               /\ projects'[id].error_message = Some(task.err)]_vars

====
